---- MODULE Spec2Model ----
(***************************************************************************)
(* The token lifecycle of the Hermes authentication service: credential    *)
(* verification, the signed-token codec, the refresh-token ledger          *)
(* (RefreshTokenRepository) and the endpoints that orchestrate them.       *)
(*                                                                         *)
(* Time is a discrete wall clock `now`.  Every datetime.now() of the code  *)
(* reads it.  created_at additionally keeps the order in which records     *)
(* were constructed inside one clock tick (field n): datetime.now() has    *)
(* microsecond resolution and two record constructions are separated by a  *)
(* database commit, so creation instants are strictly increasing.          *)
(***************************************************************************)
EXTENDS Integers, Sequences, FiniteSets, TLC

VARIABLES
    now,        \* the wall clock, in ticks
    users,      \* table users: set of UserDB rows
    ledger,     \* table refresh_tokens: set of RefreshTokenDB rows
    seqs,       \* generators: primary keys and uuid4 values drawn so far
    issued,     \* refresh tokens returned to clients so far
    accessIssued, \* access tokens returned to clients so far
    last,       \* the last operation that changed the database, and its result
    rotated,    \* refresh tokens for which /refresh has succeeded
    loggedOut,  \* refresh tokens for which /logout has succeeded
    deactivated, \* uuids of the users deactivate_user has been applied to
    streak,     \* successful logins of one user since the ledger was empty
    reqs        \* requests in flight (concurrent specification only)

vars == <<now, users, ledger, seqs, issued, accessIssued, last, rotated,
          loggedOut, deactivated, streak, reqs>>

(***************************************************************************)
(* Bounds of the model.                                                    *)
(***************************************************************************)
MaxTime == 2
MaxTokens == 4
MaxLedgerRows == 2
MaxRequests == 3
MaxRecoveryLogins == 2

(***************************************************************************)
(* Configuration (src/config.py).  Lifetimes are in clock ticks.           *)
(***************************************************************************)
MAX_ACTIVE_TOKENS_PER_USER == 2
REFRESH_TOKEN_EXPIRE_DAYS == 1
ACCESS_TOKEN_EXPIRE_MINUTES == 1
SECRET_KEY == "access-secret"
REFRESH_SECRET_KEY == "refresh-secret"
JWT_ISSUER == "hermes-api"
JWT_AUDIENCE == "hermes-mobile-app"

None == [none |-> TRUE]

(***************************************************************************)
(* src/utils/validators.py: usernames are sequences of characters.         *)
(***************************************************************************)
Lower(c) ==
    CASE c = "A" -> "a"
      [] c = "L" -> "l"
      [] c = "I" -> "i"
      [] c = "B" -> "b"
      [] c = "O" -> "o"
      [] OTHER -> c

RECURSIVE LStrip(_)
LStrip(s) == IF s # <<>> /\ Head(s) = " " THEN LStrip(Tail(s)) ELSE s

RECURSIVE RStrip(_)
RStrip(s) ==
    IF s # <<>> /\ s[Len(s)] = " " THEN RStrip(SubSeq(s, 1, Len(s) - 1)) ELSE s

\* normalize_username: the normalized value, or ValueError (ok = FALSE)
normalize_username(value) ==
    LET v == RStrip(LStrip([i \in 1..Len(value) |-> Lower(value[i])]))
    IN  IF Len(v) = 0 THEN [ok |-> FALSE]
        ELSE IF Len(v) < 3 THEN [ok |-> FALSE]
        ELSE IF Len(v) > 50 THEN [ok |-> FALSE]
        ELSE IF \E i \in 1..Len(v) : v[i] = " " THEN [ok |-> FALSE]
        ELSE [ok |-> TRUE, value |-> v]

(***************************************************************************)
(* src/utils/security.py                                                   *)
(***************************************************************************)
get_password_hash(password) == <<"argon2id", password>>

verify_password(plain_password, hashed_password) ==
    hashed_password = get_password_hash(plain_password)

hash_token(token) == <<"sha256", token>>

\* the fixed hash authenticate_user compares with when no user was found
DummyHash == <<"argon2id", "dummy-password">>

(***************************************************************************)
(* The JWT codec (jwt.encode / jwt.decode with HS256).                     *)
(***************************************************************************)
Sign(payload, key) == <<"HS256", key, payload>>

JwtEncode(payload, key) == [payload |-> payload, sig |-> Sign(payload, key)]

Has(payload, claim) == claim \in DOMAIN payload

\* jwt.decode that does not verify the signature
JwtDecodeUnverified(token, key, audience, issuer, t) ==
    IF Has(token.payload, "exp") /\ token.payload.exp <= t THEN None
    ELSE IF Has(token.payload, "iat") /\ token.payload.iat > t THEN None
    ELSE IF ~Has(token.payload, "iss") \/ token.payload.iss # issuer THEN None
    ELSE IF ~Has(token.payload, "aud") \/ token.payload.aud # audience THEN None
    ELSE token.payload

\* jwt.decode: the payload, or None for every InvalidTokenError
JwtDecode(token, key, audience, issuer, t) ==
    IF token.sig # Sign(token.payload, key) THEN None
    ELSE IF Has(token.payload, "exp") /\ token.payload.exp <= t THEN None
    ELSE IF Has(token.payload, "iat") /\ token.payload.iat > t THEN None
    ELSE IF ~Has(token.payload, "iss") \/ token.payload.iss # issuer THEN None
    ELSE IF ~Has(token.payload, "aud") \/ token.payload.aud # audience THEN None
    ELSE token.payload

(***************************************************************************)
(* src/repositories/user_repository.py, src/services/user.py               *)
(***************************************************************************)
get_by_username(U, username) ==
    IF \E u \in U : u.username = username
    THEN CHOOSE u \in U : u.username = username
    ELSE None

get_by_uuid(U, uuid) ==
    IF \E u \in U : u.uuid = uuid
    THEN CHOOSE u \in U : u.uuid = uuid
    ELSE None

\* UserInDB: the row with its password hash
get_user(U, username) == get_by_username(U, username)

\* schemas.user.User: the row without hashed_password
User(u) == [id |-> u.id, uuid |-> u.uuid, username |-> u.username,
            email |-> u.email, disabled |-> u.disabled]

get_user_by_uuid(U, uuid) ==
    LET u == get_by_uuid(U, uuid) IN IF u # None THEN User(u) ELSE None

\* uuid.uuid4(): a value never drawn before; drawn counts the earlier draws
Uuid4(drawn) == drawn + 1

\* add_user with no unique constraint on the email column
add_user_username_only(U, username, email, password, sq) ==
    IF \E u \in U : u.username = username
    THEN [users |-> U, ret |-> None, seqs |-> sq]
    ELSE LET row == [id |-> sq.user_id + 1, uuid |-> Uuid4(sq.user_uuid),
                     username |-> username, email |-> email,
                     hashed_password |-> get_password_hash(password),
                     disabled |-> FALSE]
         IN  [users |-> U \cup {row}, ret |-> row,
              seqs |-> [sq EXCEPT !.user_id = @ + 1, !.user_uuid = @ + 1]]

\* add_user: the new table and the created row, or None on IntegrityError
add_user(U, username, email, password, sq) ==
    IF \E u \in U : u.username = username \/ u.email = email
    THEN [users |-> U, ret |-> None, seqs |-> sq]
    ELSE LET row == [id |-> sq.user_id + 1, uuid |-> Uuid4(sq.user_uuid),
                     username |-> username, email |-> email,
                     hashed_password |-> get_password_hash(password),
                     disabled |-> FALSE]
         IN  [users |-> U \cup {row}, ret |-> row,
              seqs |-> [sq EXCEPT !.user_id = @ + 1, !.user_uuid = @ + 1]]

\* deactivate_user: the table after the call, the returned row, and the
\* number of UserRepository.update calls it made
deactivate_user_run(U, user) ==
    [users |-> {IF u.id = user.id THEN [u EXCEPT !.disabled = TRUE] ELSE u :
                    u \in U},
     ret |-> [user EXCEPT !.disabled = TRUE],
     writes |-> 1]

deactivate_user(U, user) == deactivate_user_run(U, user).users

(***************************************************************************)
(* src/repositories/refresh_token_repository.py.  Each operator takes the  *)
(* table L and the clock reading t and gives the table after the commit    *)
(* together with the value returned.                                       *)
(***************************************************************************)
get_by_jti(L, jti) ==
    IF \E r \in L : r.jti = jti THEN CHOOSE r \in L : r.jti = jti ELSE None

\* get_valid_token_by_jti without the filter on revoked
get_valid_token_ignoring_revoked(L, jti, t) ==
    IF \E r \in L : r.jti = jti /\ r.expires_at > t
    THEN CHOOSE r \in L : r.jti = jti /\ r.expires_at > t
    ELSE None

get_valid_token_by_jti(L, jti, t) ==
    IF \E r \in L : r.jti = jti /\ r.revoked = FALSE /\ r.expires_at > t
    THEN CHOOSE r \in L : r.jti = jti /\ r.revoked = FALSE /\ r.expires_at > t
    ELSE None

\* MarkRevoked writing `revoked = not revoked`
MarkRevokedToggling(L, id, t) ==
    {IF r.id = id THEN [r EXCEPT !.revoked = ~@, !.revoked_at = <<t>>] ELSE r
        : r \in L}

\* the UPDATE a session flushes for a row it marked revoked at time t
MarkRevoked(L, id, t) ==
    {IF r.id = id THEN [r EXCEPT !.revoked = TRUE, !.revoked_at = <<t>>] ELSE r
        : r \in L}

\* create inserting the row already revoked
create_already_revoked(L, jti, token_hash, user_uuid, expires_at, t, sq) ==
    LET refresh_token ==
            [id |-> sq.token_id + 1, jti |-> jti, token_hash |-> token_hash,
             user_uuid |-> user_uuid, expires_at |-> expires_at,
             created_at |-> [t |-> t, n |-> sq.token_id + 1],
             revoked |-> TRUE, revoked_at |-> <<t>>]
    IN  [ledger |-> L \cup {refresh_token}, ret |-> refresh_token,
         seqs |-> [sq EXCEPT !.token_id = @ + 1]]

create(L, jti, token_hash, user_uuid, expires_at, t, sq) ==
    LET refresh_token ==
            [id |-> sq.token_id + 1, jti |-> jti, token_hash |-> token_hash,
             user_uuid |-> user_uuid, expires_at |-> expires_at,
             created_at |-> [t |-> t, n |-> sq.token_id + 1],
             revoked |-> FALSE, revoked_at |-> <<>>]
    IN  [ledger |-> L \cup {refresh_token}, ret |-> refresh_token,
         seqs |-> [sq EXCEPT !.token_id = @ + 1]]

revoke(L, refresh_token, t) ==
    [ledger |-> MarkRevoked(L, refresh_token.id, t),
     ret |-> [refresh_token EXCEPT !.revoked = TRUE, !.revoked_at = <<t>>]]

\* revoke_by_jti that finds the row and does not write
revoke_by_jti_without_write(L, jti, t) ==
    LET token == get_by_jti(L, jti)
    IN  [ledger |-> L, ret |-> token # None /\ ~token.revoked]

\* revoke_by_jti without the test of token.revoked
revoke_by_jti_unconditional(L, jti, t) ==
    LET token == get_by_jti(L, jti)
    IN  IF token # None
        THEN [ledger |-> MarkRevoked(L, token.id, t), ret |-> TRUE]
        ELSE [ledger |-> L, ret |-> FALSE]

revoke_by_jti(L, jti, t) ==
    LET token == get_by_jti(L, jti)
    IN  IF token # None /\ ~token.revoked
        THEN [ledger |-> MarkRevoked(L, token.id, t), ret |-> TRUE]
        ELSE [ledger |-> L, ret |-> FALSE]

\* revoke_all_for_user selecting only the rows that have not expired
revoke_all_for_user_unexpired(L, user_uuid, t) ==
    LET tokens == {r \in L : r.user_uuid = user_uuid /\ r.revoked = FALSE
                                /\ r.expires_at > t}
    IN  [ledger |-> {IF r \in tokens
                     THEN [r EXCEPT !.revoked = TRUE, !.revoked_at = <<t>>]
                     ELSE r : r \in L},
         ret |-> Cardinality(tokens)]

revoke_all_for_user(L, user_uuid, t) ==
    LET tokens == {r \in L : r.user_uuid = user_uuid /\ r.revoked = FALSE}
    IN  [ledger |-> {IF r \in tokens
                     THEN [r EXCEPT !.revoked = TRUE, !.revoked_at = <<t>>]
                     ELSE r : r \in L},
         ret |-> Cardinality(tokens)]

\* delete_expired_tokens deleting only the expired rows that were revoked
delete_expired_tokens_revoked_only(L, t) ==
    LET expired_tokens == {r \in L : r.expires_at < t /\ r.revoked}
    IN  [ledger |-> L \ expired_tokens, ret |-> Cardinality(expired_tokens)]

delete_expired_tokens(L, t) ==
    LET expired_tokens == {r \in L : r.expires_at < t}
    IN  [ledger |-> L \ expired_tokens, ret |-> Cardinality(expired_tokens)]

count_active_tokens_for_user(L, user_uuid, t) ==
    Cardinality({r \in L : r.user_uuid = user_uuid /\ r.revoked = FALSE
                             /\ r.expires_at > t})

\* ORDER BY created_at
Earlier(a, b) == a.t < b.t \/ (a.t = b.t /\ a.n < b.n)

\* the SELECT of revoke_oldest_tokens without its user_uuid condition
OldestRowOfAnyUser(L, user_uuid) ==
    LET cand == {r \in L : r.revoked = FALSE}
    IN  IF cand = {} THEN None
        ELSE CHOOSE r \in cand :
                \A o \in cand \ {r} : Earlier(r.created_at, o.created_at)

\* the row revoke_oldest_tokens selects: ORDER BY created_at LIMIT 1
OldestRow(L, user_uuid) ==
    LET cand == {r \in L : r.user_uuid = user_uuid /\ r.revoked = FALSE}
    IN  IF cand = {} THEN None
        ELSE CHOOSE r \in cand :
                \A o \in cand \ {r} : Earlier(r.created_at, o.created_at)

revoke_oldest_tokens(L, user_uuid, t) ==
    LET oldest == OldestRow(L, user_uuid)
    IN  IF oldest # None
        THEN [ledger |-> MarkRevoked(L, oldest.id, t), ret |-> TRUE]
        ELSE [ledger |-> L, ret |-> FALSE]

(***************************************************************************)
(* src/services/auth.py                                                    *)
(***************************************************************************)
\* authenticate_user without the check of user.disabled
authenticate_user_ignoring_disabled(U, username, password) ==
    LET n == normalize_username(username)
        user_with_password == IF n.ok THEN get_user(U, n.value) ELSE None
        hashed_password == IF user_with_password # None
                           THEN user_with_password.hashed_password
                           ELSE DummyHash
    IN  IF ~verify_password(password, hashed_password) THEN None
        ELSE IF user_with_password = None THEN None
        ELSE User(user_with_password)

\* authenticate_user returning at once, with no verify_password call, when
\* the username does not normalize
authenticate_user_short_circuit(U, username, password) ==
    LET n == normalize_username(username)
        user_with_password == IF n.ok THEN get_user(U, n.value) ELSE None
        hashed_password == IF user_with_password # None
                           THEN user_with_password.hashed_password
                           ELSE DummyHash
        call == [plain_password |-> password,
                 hashed_password |-> hashed_password]
    IN  IF ~n.ok THEN [ret |-> None, verify_calls |-> <<>>]
        ELSE [verify_calls |-> <<call>>,
              ret |-> IF ~verify_password(password, hashed_password) THEN None
                      ELSE IF user_with_password = None THEN None
                      ELSE IF user_with_password.disabled THEN None
                      ELSE User(user_with_password)]

\* authenticate_user with the calls of verify_password it makes on the way:
\* ret is what it returns, verify_calls the arguments of each call in order
authenticate_user_run(U, username, password) ==
    LET n == normalize_username(username)
        user_with_password == IF n.ok THEN get_user(U, n.value) ELSE None
        hashed_password == IF user_with_password # None
                           THEN user_with_password.hashed_password
                           ELSE DummyHash
        call == [plain_password |-> password,
                 hashed_password |-> hashed_password]
    IN  [verify_calls |-> <<call>>,
         ret |-> IF ~verify_password(password, hashed_password) THEN None
                 ELSE IF user_with_password = None THEN None
                 ELSE IF user_with_password.disabled THEN None
                 ELSE User(user_with_password)]

authenticate_user(U, username, password) ==
    authenticate_user_run(U, username, password).ret

\* datetime.timedelta
timedelta(n) == [d |-> n]

\* `if expires_delta:` is false for None and for a zero timedelta
Truthy(delta) == delta # None /\ delta.d # 0

\* create_access_token in a process whose environment sets JWT_ISSUER and
\* JWT_AUDIENCE to issuer and audience
create_access_token_under(issuer, audience, sub, expires_delta, t) ==
    LET expire == IF Truthy(expires_delta) THEN t + expires_delta.d
                  ELSE t + ACCESS_TOKEN_EXPIRE_MINUTES
    IN  JwtEncode([sub |-> sub, type |-> "access", exp |-> expire, iat |-> t,
                   iss |-> issuer, aud |-> audience], SECRET_KEY)

create_access_token(sub, expires_delta, t) ==
    create_access_token_under(JWT_ISSUER, JWT_AUDIENCE, sub, expires_delta, t)

\* create_refresh_token signing with the access secret
create_refresh_token_access_key(sub, expires_delta, t, sq) ==
    LET expire == IF Truthy(expires_delta) THEN t + expires_delta.d
                  ELSE t + REFRESH_TOKEN_EXPIRE_DAYS
        jti == Uuid4(sq.jti)
    IN  [token |-> JwtEncode([sub |-> sub, type |-> "refresh", jti |-> jti,
                              exp |-> expire, iat |-> t, iss |-> JWT_ISSUER,
                              aud |-> JWT_AUDIENCE], SECRET_KEY),
         jti |-> jti, expire |-> expire,
         seqs |-> [sq EXCEPT !.jti = @ + 1]]

\* create_refresh_token in a process whose environment sets
\* REFRESH_TOKEN_EXPIRE_DAYS to days
create_refresh_token_under(days, sub, expires_delta, t, sq) ==
    LET expire == IF Truthy(expires_delta) THEN t + expires_delta.d
                  ELSE t + days
        jti == Uuid4(sq.jti)
    IN  [token |-> JwtEncode([sub |-> sub, type |-> "refresh", jti |-> jti,
                              exp |-> expire, iat |-> t, iss |-> JWT_ISSUER,
                              aud |-> JWT_AUDIENCE], REFRESH_SECRET_KEY),
         jti |-> jti, expire |-> expire,
         seqs |-> [sq EXCEPT !.jti = @ + 1]]

\* create_refresh_token that draws the same uuid4 again
create_refresh_token_reusing_jti(sub, expires_delta, t, sq) ==
    [create_refresh_token_under(REFRESH_TOKEN_EXPIRE_DAYS, sub, expires_delta,
                                t, sq) EXCEPT !.seqs = sq]

create_refresh_token(sub, expires_delta, t, sq) ==
    create_refresh_token_under(REFRESH_TOKEN_EXPIRE_DAYS, sub, expires_delta,
                               t, sq)

\* verify_refresh_token without the comparison of the token's hash
verify_refresh_token_without_hash(U, L, token, t) ==
    LET payload == JwtDecode(token, REFRESH_SECRET_KEY, JWT_AUDIENCE,
                             JWT_ISSUER, t)
    IN  IF payload = None THEN None
        ELSE IF ~Has(payload, "type") \/ payload.type # "refresh" THEN None
        ELSE IF ~Has(payload, "sub") \/ ~Has(payload, "jti") THEN None
        ELSE LET token_record == get_valid_token_by_jti(L, payload.jti, t)
             IN  IF token_record = None THEN None
                 ELSE IF token_record.user_uuid # payload.sub THEN None
                 ELSE LET user == get_user_by_uuid(U, payload.sub)
                      IN  IF user = None \/ user.disabled THEN None
                          ELSE [user |-> user, jti |-> payload.jti]

\* verify_refresh_token without the test of user.disabled
verify_refresh_token_ignoring_disabled(U, L, token, t) ==
    LET payload == JwtDecode(token, REFRESH_SECRET_KEY, JWT_AUDIENCE,
                             JWT_ISSUER, t)
    IN  IF payload = None THEN None
        ELSE IF ~Has(payload, "type") \/ payload.type # "refresh" THEN None
        ELSE IF ~Has(payload, "sub") \/ ~Has(payload, "jti") THEN None
        ELSE LET token_record == get_valid_token_by_jti(L, payload.jti, t)
             IN  IF token_record = None THEN None
                 ELSE IF token_record.user_uuid # payload.sub THEN None
                 ELSE IF token_record.token_hash # hash_token(token)
                      THEN None
                 ELSE LET user == get_user_by_uuid(U, payload.sub)
                      IN  IF user = None THEN None
                          ELSE [user |-> user, jti |-> payload.jti]

\* verify_refresh_token: ret is [user, jti] or None, reads the number of
\* RefreshTokenRepository.get_valid_token_by_jti calls made
verify_refresh_token_run(U, L, token, t) ==
    LET payload == JwtDecode(token, REFRESH_SECRET_KEY, JWT_AUDIENCE,
                             JWT_ISSUER, t)
        Unread == [ret |-> None, reads |-> 0]
        Read(ret) == [ret |-> ret, reads |-> 1]
    IN  IF payload = None THEN Unread
        ELSE IF ~Has(payload, "type") \/ payload.type # "refresh" THEN Unread
        ELSE IF ~Has(payload, "sub") \/ ~Has(payload, "jti") THEN Unread
        ELSE LET user_uuid == payload.sub
                 jti == payload.jti
                 token_record == get_valid_token_by_jti(L, jti, t)
             IN  IF token_record = None THEN Read(None)
                     ELSE IF token_record.user_uuid # user_uuid
                          THEN Read(None)
                     ELSE IF token_record.token_hash # hash_token(token)
                          THEN Read(None)
                     ELSE LET user == get_user_by_uuid(U, user_uuid)
                          IN  IF user = None \/ user.disabled
                              THEN Read(None)
                              ELSE Read([user |-> user, jti |-> jti])

\* verify_refresh_token: [user, jti], or None
verify_refresh_token(U, L, token, t) ==
    verify_refresh_token_run(U, L, token, t).ret

\* the eviction step with `>` for `>=`
EvictIfOverCap(L, user_uuid, t) ==
    LET active_count == count_active_tokens_for_user(L, user_uuid, t)
    IN  IF active_count > MAX_ACTIVE_TOKENS_PER_USER
        THEN revoke_oldest_tokens(L, user_uuid, t).ledger
        ELSE L

\* the eviction step taken one token below the cap
EvictIfNearCap(L, user_uuid, t) ==
    LET active_count == count_active_tokens_for_user(L, user_uuid, t)
    IN  IF active_count >= MAX_ACTIVE_TOKENS_PER_USER - 1
        THEN revoke_oldest_tokens(L, user_uuid, t).ledger
        ELSE L

\* the eviction step of create_and_store_tokens
EvictIfAtCap(L, user_uuid, t) ==
    LET active_count == count_active_tokens_for_user(L, user_uuid, t)
    IN  IF active_count >= MAX_ACTIVE_TOKENS_PER_USER
        THEN revoke_oldest_tokens(L, user_uuid, t).ledger
        ELSE L

create_and_store_tokens(L, user_uuid, access_expires, refresh_expires, t, sq) ==
    LET L1 == EvictIfAtCap(L, user_uuid, t)
        access_token == create_access_token(user_uuid, access_expires, t)
        minted == create_refresh_token(user_uuid, refresh_expires, t, sq)
        stored == create(L1, minted.jti, hash_token(minted.token), user_uuid,
                         minted.expire, t, minted.seqs)
    IN  [ledger |-> stored.ledger, seqs |-> stored.seqs,
         access_token |-> access_token, refresh_token |-> minted.token]

(***************************************************************************)
(* src/utils/dependencies.py                                               *)
(***************************************************************************)
\* uuid_lib.UUID(uuid_str) accepts the value
IsUuid(x) == x \in Nat

\* get_current_user also requiring a live refresh-token record of the user
get_current_user_checking_ledger(U, token, t) ==
    LET payload == JwtDecode(token, SECRET_KEY, "hermes-mobile-app",
                             "hermes-api", t)
    IN  IF payload = None THEN [status |-> 401]
        ELSE IF ~Has(payload, "sub") THEN [status |-> 401]
        ELSE IF ~IsUuid(payload.sub) THEN [status |-> 401]
        ELSE IF \A r \in ledger : r.user_uuid = payload.sub => r.revoked
             THEN [status |-> 401]
        ELSE LET user == get_user_by_uuid(U, payload.sub)
             IN  IF user = None THEN [status |-> 401]
                 ELSE [status |-> 200, user |-> user]

\* get_current_user: [status |-> 200, user], or the 401 it raises
get_current_user(U, token, t) ==
    LET payload == JwtDecode(token, SECRET_KEY, "hermes-mobile-app",
                             "hermes-api", t)
    IN  IF payload = None THEN [status |-> 401]
        ELSE IF ~Has(payload, "sub") THEN [status |-> 401]
        ELSE IF ~IsUuid(payload.sub) THEN [status |-> 401]
        ELSE LET user == get_user_by_uuid(U, payload.sub)
             IN  IF user = None THEN [status |-> 401]
                 ELSE [status |-> 200, user |-> user]

\* get_current_active_user without the test of disabled
get_current_active_user_ungated(U, token, t) == get_current_user(U, token, t)

get_current_active_user(U, token, t) ==
    LET current == get_current_user(U, token, t)
    IN  IF current.status # 200 THEN current
        ELSE IF current.user.disabled THEN [status |-> 403]
        ELSE current

(***************************************************************************)
(* The endpoints (src/routers/auth.py, src/routers/users.py) as functions  *)
(* of the database a request finds: the response and the database the      *)
(* request leaves behind.                                                  *)
(***************************************************************************)
Resp(status, U, L, sq) ==
    [status |-> status, users |-> U, ledger |-> L, seqs |-> sq,
     access_token |-> None, refresh_token |-> None, user_uuid |-> 0,
     ret |-> 0, verify_calls |-> <<>>, detail |-> ""]

\* the HTTPException(401) of /login and /token, and of /refresh and /logout
IncorrectCredentials(U, L, sq) ==
    [Resp(401, U, L, sq) EXCEPT !.detail = "Incorrect username or password"]

InvalidRefreshToken(U, L, sq) ==
    [Resp(401, U, L, sq) EXCEPT !.detail = "Invalid or expired refresh token"]

\* the part the token-issuing endpoints share: lines 73-88 of routers/auth.py
IssueFor(status, U, L, sq, user_uuid, t) ==
    LET c == create_and_store_tokens(L, user_uuid,
                                     timedelta(ACCESS_TOKEN_EXPIRE_MINUTES),
                                     timedelta(REFRESH_TOKEN_EXPIRE_DAYS),
                                     t, sq)
    IN  [Resp(status, U, c.ledger, c.seqs) EXCEPT
            !.access_token = c.access_token,
            !.refresh_token = c.refresh_token,
            !.user_uuid = user_uuid]

get_access_token(U, L, sq, username, password, t) ==
    LET user == authenticate_user(U, username, password)
        calls == authenticate_user_run(U, username, password).verify_calls
    IN  [(IF user = None THEN IncorrectCredentials(U, L, sq)
          ELSE IssueFor(200, U, L, sq, user.uuid, t))
            EXCEPT !.verify_calls = calls]

\* login refusing a user who is at the cap, in place of evicting
login_rejecting_at_cap(U, L, sq, username, password, t) ==
    LET v == normalize_username(username)
    IN  IF ~v.ok THEN Resp(422, U, L, sq)
        ELSE LET run == authenticate_user_run(U, v.value, password)
                 user == run.ret
             IN  [(IF user = None THEN IncorrectCredentials(U, L, sq)
                   ELSE IF count_active_tokens_for_user(L, user.uuid, t)
                              >= MAX_ACTIVE_TOKENS_PER_USER
                        THEN Resp(429, U, L, sq)
                        ELSE IssueFor(200, U, L, sq, user.uuid, t))
                     EXCEPT !.verify_calls = run.verify_calls]

\* LoginRequest validates the username first: a ValueError is a 422
login(U, L, sq, username, password, t) ==
    LET v == normalize_username(username)
    IN  IF ~v.ok THEN Resp(422, U, L, sq)
        ELSE LET user == authenticate_user(U, v.value, password)
                 calls == authenticate_user_run(U, v.value, password)
                              .verify_calls
             IN  [(IF user = None THEN IncorrectCredentials(U, L, sq)
                   ELSE IssueFor(200, U, L, sq, user.uuid, t))
                     EXCEPT !.verify_calls = calls]

register(U, L, sq, username, email, password, t) ==
    LET a == add_user(U, username, email, password, sq)
    IN  IF a.ret = None THEN Resp(409, U, L, sq)
        ELSE IssueFor(201, a.users, L, a.seqs, a.ret.uuid, t)

\* refresh_token_endpoint answering 403 when the token's user is disabled
refresh_token_endpoint_telling_disabled(U, L, sq, token, t) ==
    LET result == verify_refresh_token(U, L, token, t)
        live == verify_refresh_token({[u EXCEPT !.disabled = FALSE] : u \in U},
                                     L, token, t)
    IN  IF result = None
        THEN IF live # None
             THEN [Resp(403, U, L, sq) EXCEPT !.detail = "Inactive user"]
             ELSE InvalidRefreshToken(U, L, sq)
        ELSE LET L1 == revoke_by_jti(L, result.jti, t).ledger
             IN  IssueFor(200, U, L1, sq, result.user.uuid, t)

\* refresh_token_endpoint revoking, after the issuance, all the records of
\* the user in place of the presented one before it
refresh_token_endpoint_revoking_user(U, L, sq, token, t) ==
    LET result == verify_refresh_token(U, L, token, t)
    IN  IF result = None THEN InvalidRefreshToken(U, L, sq)
        ELSE LET r == IssueFor(200, U, L, sq, result.user.uuid, t)
             IN  [r EXCEPT !.ledger =
                     revoke_all_for_user(r.ledger, result.user.uuid, t).ledger]

refresh_token_endpoint(U, L, sq, token, t) ==
    LET result == verify_refresh_token(U, L, token, t)
    IN  IF result = None THEN InvalidRefreshToken(U, L, sq)
        ELSE LET L1 == revoke_by_jti(L, result.jti, t).ledger
             IN  IssueFor(200, U, L1, sq, result.user.uuid, t)

\* logout that treats a token whose row is revoked as stolen and revokes
\* every record of its user
logout_revoking_on_reuse(U, L, sq, token, t) ==
    LET result == verify_refresh_token(U, L, token, t)
        row == IF Has(token.payload, "jti")
               THEN get_by_jti(L, token.payload.jti) ELSE None
    IN  IF result = None
        THEN IF row # None /\ row.revoked
             THEN InvalidRefreshToken(U, revoke_all_for_user(L, row.user_uuid,
                                                             t).ledger, sq)
             ELSE InvalidRefreshToken(U, L, sq)
        ELSE [Resp(200, U, revoke_by_jti(L, result.jti, t).ledger, sq)
                 EXCEPT !.user_uuid = result.user.uuid,
                        !.detail = "User logged out successfully"]

\* logout revoking every record of the token's user
logout_revoking_all(U, L, sq, token, t) ==
    LET result == verify_refresh_token(U, L, token, t)
    IN  IF result = None THEN InvalidRefreshToken(U, L, sq)
        ELSE [Resp(200, U,
                   revoke_all_for_user(L, result.user.uuid, t).ledger, sq)
                 EXCEPT !.user_uuid = result.user.uuid,
                        !.detail = "User logged out successfully"]

logout(U, L, sq, token, t) ==
    LET result == verify_refresh_token(U, L, token, t)
    IN  IF result = None THEN InvalidRefreshToken(U, L, sq)
        ELSE [Resp(200, U, revoke_by_jti(L, result.jti, t).ledger, sq)
                 EXCEPT !.user_uuid = result.user.uuid,
                        !.detail = "User logged out successfully"]

deactivate_current_user(U, L, sq, token, t) ==
    LET current == get_current_active_user(U, token, t)
    IN  IF current.status # 200 THEN Resp(current.status, U, L, sq)
        ELSE LET user_db == get_by_uuid(U, current.user.uuid)
             IN  IF user_db = None THEN Resp(404, U, L, sq)
                 ELSE [Resp(200, deactivate_user(U, user_db), L, sq)
                          EXCEPT !.user_uuid = user_db.uuid]

(***************************************************************************)
(* Inputs.                                                                 *)
(***************************************************************************)
Ali == <<"a", "l", "i">>
Bob == <<"b", "o", "b">>

RegInputs ==
    {[username |-> Ali, email |-> "ali@example.com", password |-> "Passw0rd!a"]}

\* what clients type as a username: other case and padding, a malformed one
LoginNames == {<<" ", "A", "L", "I">>, Bob, <<"a", " ", "i">>}

Passwords == {"Passw0rd!a", "Passw0rd!b"}

(***************************************************************************)
(* The sequential specification: requests and repository calls run one at  *)
(* a time, each on a fresh database session.                               *)
(***************************************************************************)
NoStreak == [user |-> 0, jtis |-> <<>>]

Init ==
    /\ now = 0
    /\ users = {}
    /\ ledger = {}
    /\ seqs = [user_id |-> 0, token_id |-> 0, user_uuid |-> 0, jti |-> 0]
    /\ issued = {}
    /\ accessIssued = {}
    /\ last = [op |-> "init", token |-> None, access_token |-> None,
               refresh_token |-> None, user_uuid |-> 0]
    /\ rotated = {}
    /\ loggedOut = {}
    /\ deactivated = {}
    /\ streak = NoStreak
    /\ reqs = <<>>

IsLogin(op) == op \in {"login", "token"}

\* the run of successful logins of one user that began on an empty ledger
NextStreak(op, r) ==
    IF IsLogin(op) /\ r.status = 200
    THEN IF ledger = {}
         THEN [user |-> r.user_uuid,
               jtis |-> <<r.refresh_token.payload.jti>>]
         ELSE IF streak.user = r.user_uuid
              THEN [streak EXCEPT
                       !.jtis = Append(@, r.refresh_token.payload.jti)]
              ELSE NoStreak
    ELSE IF r.ledger # ledger THEN NoStreak ELSE streak

\* one completed operation `op` with result r; token is what was presented
Complete(op, r, token) ==
    /\ r.seqs.token_id <= MaxTokens
    /\ users' = r.users
    /\ ledger' = r.ledger
    /\ seqs' = r.seqs
    /\ issued' = IF r.refresh_token # None
                 THEN issued \cup {r.refresh_token} ELSE issued
    /\ accessIssued' = IF r.access_token # None
                       THEN accessIssued \cup {r.access_token}
                       ELSE accessIssued
    /\ last' = IF <<r.users, r.ledger, r.seqs>> # <<users, ledger, seqs>>
               THEN [op |-> op, token |-> token,
                     access_token |-> r.access_token,
                     refresh_token |-> r.refresh_token,
                     user_uuid |-> r.user_uuid]
               ELSE last
    /\ rotated' = IF op = "refresh" /\ r.status = 200
                  THEN rotated \cup {token} ELSE rotated
    /\ loggedOut' = IF op = "logout" /\ r.status = 200
                    THEN loggedOut \cup {token} ELSE loggedOut
    /\ deactivated' = IF op = "deactivate" /\ r.status = 200
                      THEN deactivated \cup {r.user_uuid} ELSE deactivated
    /\ streak' = NextStreak(op, r)
    /\ UNCHANGED <<now, reqs>>

AddUser(in) ==
    LET a == add_user(users, in.username, in.email, in.password, seqs)
    IN  Complete("add_user",
                 [Resp(0, a.users, ledger, a.seqs) EXCEPT
                     !.ret = a.ret # None], None)

Register(in) ==
    Complete("register",
             register(users, ledger, seqs, in.username, in.email, in.password,
                      now), None)

Login(username, password) ==
    Complete("login", login(users, ledger, seqs, username, password, now), None)

GetAccessToken(username, password) ==
    Complete("token",
             get_access_token(users, ledger, seqs, username, password, now),
             None)

Refresh(token) ==
    Complete("refresh", refresh_token_endpoint(users, ledger, seqs, token, now),
             token)

Logout(token) ==
    Complete("logout", logout(users, ledger, seqs, token, now), token)

DeactivateCurrentUser(token) ==
    Complete("deactivate",
             deactivate_current_user(users, ledger, seqs, token, now), None)

\* the repository's mutators, called directly
Revoke(row) ==
    LET x == revoke(ledger, row, now)
    IN  Complete("revoke", Resp(0, users, x.ledger, seqs), None)

RevokeByJti(jti) ==
    LET x == revoke_by_jti(ledger, jti, now)
    IN  Complete("revoke_by_jti",
                 [Resp(0, users, x.ledger, seqs) EXCEPT !.ret = x.ret], None)

RevokeAllForUser(user_uuid) ==
    LET x == revoke_all_for_user(ledger, user_uuid, now)
    IN  Complete("revoke_all_for_user",
                 [Resp(0, users, x.ledger, seqs) EXCEPT !.ret = x.ret], None)

RevokeOldestTokens(user_uuid) ==
    LET x == revoke_oldest_tokens(ledger, user_uuid, now)
    IN  Complete("revoke_oldest_tokens",
                 [Resp(0, users, x.ledger, seqs) EXCEPT !.ret = x.ret], None)

DeleteExpiredTokens ==
    LET x == delete_expired_tokens(ledger, now)
    IN  Complete("delete_expired_tokens",
                 [Resp(0, users, x.ledger, seqs) EXCEPT !.ret = x.ret], None)

Tick ==
    /\ now < MaxTime
    /\ now' = now + 1
    /\ UNCHANGED <<users, ledger, seqs, issued, accessIssued, last, rotated,
                   loggedOut, deactivated, streak, reqs>>

UserUuids == {u.uuid : u \in users}

Next ==
    \/ \E in \in RegInputs : AddUser(in)
    \/ \E in \in RegInputs : Register(in)
    \/ \E n \in LoginNames, p \in Passwords : Login(n, p)
    \/ \E n \in LoginNames, p \in Passwords : GetAccessToken(n, p)
    \/ \E token \in issued : Refresh(token)
    \/ \E token \in issued : Logout(token)
    \/ \E token \in accessIssued : DeactivateCurrentUser(token)
    \/ DeleteExpiredTokens
    \/ Tick

Spec == Init /\ [][Next]_vars

(***************************************************************************)
(* Claims checked under Spec.                                              *)
(***************************************************************************)
IssuingOps == {"login", "token", "register", "refresh"}

Unexpired(token) == token.payload.exp > now

ActiveOwner(token) ==
    \E u \in users : u.uuid = token.payload.sub /\ ~u.disabled

\* the username and password are those of an existing user who is not disabled
ValidCredentials(username, password) ==
    LET v == normalize_username(username)
    IN  /\ v.ok
        /\ \E u \in users : /\ u.username = v.value
                            /\ verify_password(password, u.hashed_password)
                            /\ ~u.disabled

\* C1: once /refresh has succeeded for a refresh token, /refresh with the
\* same token fails in every later state, whatever happened in between and
\* whether or not the token has expired.
C1_SingleUse ==
    \A t \in rotated :
        refresh_token_endpoint(users, ledger, seqs, t, now).status = 401

\* a rotated token that has not expired, whose owner is active, after a
\* later login, is refused
C1_Witness ==
    \E t \in rotated :
        /\ Unexpired(t) /\ ActiveOwner(t)
        /\ IsLogin(last.op)
        /\ refresh_token_endpoint(users, ledger, seqs, t, now).status = 401

\* C3: once /logout has succeeded for a refresh token, /refresh and /logout
\* with the same token fail with the invalid-token response (401) in every
\* later state.
C3_LogoutIsFinal ==
    \A t \in loggedOut :
        /\ refresh_token_endpoint(users, ledger, seqs, t, now).status = 401
        /\ logout(users, ledger, seqs, t, now).status = 401

C3_Witness ==
    \E t \in loggedOut :
        /\ Unexpired(t) /\ ActiveOwner(t)
        /\ last.op = "logout" /\ last.token = t
        /\ refresh_token_endpoint(users, ledger, seqs, t, now).status = 401
        /\ logout(users, ledger, seqs, t, now).status = 401

\* the records of the N+1 logins of the streak are all there and unexpired
StreakComplete ==
    /\ Len(streak.jtis) = MAX_ACTIVE_TOKENS_PER_USER + 1
    /\ \A i \in 1..Len(streak.jtis) :
          \E r \in ledger : r.jti = streak.jtis[i] /\ r.expires_at > now

\* C4: after N+1 successful logins of one user that started on an empty
\* ledger, with no token expired, the user has N active tokens, the token
\* of the first login is revoked and the other N are not.
C4_CapEviction ==
    StreakComplete =>
        /\ count_active_tokens_for_user(ledger, streak.user, now)
              = MAX_ACTIVE_TOKENS_PER_USER
        /\ get_by_jti(ledger, streak.jtis[1]).revoked
        /\ \A i \in 2..Len(streak.jtis) :
              ~get_by_jti(ledger, streak.jtis[i]).revoked

C4_Witness ==
    /\ StreakComplete
    /\ IsLogin(last.op)
    /\ get_by_jti(ledger, streak.jtis[1]).revoked

\* C5: right after create_and_store_tokens has returned, the user's number
\* of active tokens is at most the configured maximum.
C5_CapIsUpperBound ==
    last.op \in IssuingOps =>
        count_active_tokens_for_user(ledger, last.user_uuid, now)
            <= MAX_ACTIVE_TOKENS_PER_USER

\* the rows of the table after a step that the table before did not hold
NewRows == {x \in ledger' : \A o \in ledger : o.id # x.id}

\* C9: a /login with valid credentials of an active user answers 200 with an
\* access token and a refresh token, and the ledger gains exactly one row:
\* not revoked, with the refresh token's jti and the user's uuid.
C9_LoginIssuesOneRecord ==
    [][\A n \in LoginNames, p \in Passwords :
          (ValidCredentials(n, p) /\ Login(n, p)) =>
              LET r == login(users, ledger, seqs, n, p, now)
                  user == get_by_username(users, normalize_username(n).value)
              IN  /\ r.status = 200
                  /\ r.access_token # None /\ r.refresh_token # None
                  /\ r.access_token \in accessIssued'
                  /\ r.refresh_token \in issued'
                  /\ Cardinality(NewRows) = 1
                  /\ \A o \in ledger : \E x \in ledger' : x.id = o.id
                  /\ \A x \in NewRows :
                        /\ x.revoked = FALSE
                        /\ x.jti = r.refresh_token.payload.jti
                        /\ x.user_uuid = user.uuid
                        /\ r.refresh_token.payload.sub = user.uuid]_vars

C9_Witness ==
    /\ last.op = "login"
    /\ \E x \in ledger : /\ x.jti = last.refresh_token.payload.jti
                         /\ x.user_uuid = last.user_uuid
                         /\ ~x.revoked
    /\ last.access_token \in accessIssued
    /\ Cardinality(ledger) > 1

\* C10: for a disabled user, and for every user deactivate_user was ever
\* applied to, /login and /token fail for the user's name with the right
\* password and with a wrong one.
C10_DisabledCannotLogin ==
    \A u \in users :
        (u.disabled \/ u.uuid \in deactivated) =>
            \A n \in LoginNames \cup {u.username}, p \in Passwords :
                normalize_username(n) = [ok |-> TRUE, value |-> u.username] =>
                    /\ login(users, ledger, seqs, n, p, now).status = 401
                    /\ get_access_token(users, ledger, seqs, n, p, now).status
                          = 401

C10_Witness ==
    \E u \in users, n \in LoginNames, p \in Passwords :
        /\ u.uuid \in deactivated
        /\ last.op = "deactivate"
        /\ normalize_username(n) = [ok |-> TRUE, value |-> u.username]
        /\ verify_password(p, u.hashed_password)
        /\ login(users, ledger, seqs, n, p, now).status = 401

\* usernames and passwords the authentication claims range over: the names
\* clients type, a registered name as stored, names that do not normalize
\* (too short, blank, too long, embedded space), and the password the dummy
\* hash was computed from
TooLong == [i \in 1..51 |-> "a"]

AuthNames == LoginNames \cup {Ali, <<"a", "l">>, <<" ", " ">>, TooLong}

AuthPasswords == Passwords \cup {"dummy-password"}

\* C11: on every path authenticate_user calls verify_password exactly once,
\* with the supplied password and the stored hash when the user exists and
\* the dummy hash when no user was found or the username does not
\* normalize; with no user found it returns None whatever the call returns.
C11_OneVerification ==
    \A n \in AuthNames, p \in AuthPasswords :
        LET run == authenticate_user_run(users, n, p)
            v == normalize_username(n)
            user == IF v.ok THEN get_user(users, v.value) ELSE None
        IN  /\ Len(run.verify_calls) = 1
            /\ run.verify_calls[1].plain_password = p
            /\ run.verify_calls[1].hashed_password =
                   IF user # None THEN user.hashed_password ELSE DummyHash
            /\ user = None => run.ret = None

\* after a login, with a user in the table: one name authenticates, and a
\* malformed and an unknown name are refused with the password that the
\* dummy hash verifies
C11_Witness ==
    /\ IsLogin(last.op)
    /\ \E n \in AuthNames, p \in AuthPasswords :
          authenticate_user_run(users, n, p).ret # None
    /\ \E n \in AuthNames :
          /\ ~normalize_username(n).ok
          /\ verify_password("dummy-password",
                             authenticate_user_run(users, n, "dummy-password")
                                 .verify_calls[1].hashed_password)
          /\ authenticate_user_run(users, n, "dummy-password").ret = None
    /\ \E n \in AuthNames :
          /\ normalize_username(n).ok
          /\ get_user(users, normalize_username(n).value) = None
          /\ verify_password("dummy-password",
                             authenticate_user_run(users, n, "dummy-password")
                                 .verify_calls[1].hashed_password)
          /\ authenticate_user_run(users, n, "dummy-password").ret = None

\* C12: /login and /token answer a username that does not normalize with
\* the answer they give an unknown user or a wrong password (401), after one
\* verify_password call.
C12_MalformedLikeUnknown ==
    \A n \in AuthNames, p \in AuthPasswords :
        ~normalize_username(n).ok =>
            /\ login(users, ledger, seqs, n, p, now).status = 401
            /\ Len(login(users, ledger, seqs, n, p, now).verify_calls) = 1
            /\ get_access_token(users, ledger, seqs, n, p, now).status = 401
            /\ Len(get_access_token(users, ledger, seqs, n, p, now)
                       .verify_calls) = 1

\* C13: an access token the service has issued is never accepted by
\* /refresh or /logout, and a refresh token it has issued is never accepted
\* by get_current_user.
C13_NoTypeConfusion ==
    /\ \A a \in accessIssued :
          /\ refresh_token_endpoint(users, ledger, seqs, a, now).status = 401
          /\ logout(users, ledger, seqs, a, now).status = 401
          /\ verify_refresh_token(users, ledger, a, now) = None
    /\ \A r \in issued :
          /\ get_current_user(users, r, now).status = 401
          /\ get_current_active_user(users, r, now).status = 401

\* an access token that get_current_user accepts and a refresh token that
\* /refresh accepts, issued together, each refused in the other role
C13_Witness ==
    /\ last.op \in IssuingOps
    /\ last.access_token \in accessIssued
    /\ get_current_user(users, last.access_token, now).status = 200
    /\ refresh_token_endpoint(users, ledger, seqs, last.access_token, now)
          .status = 401
    /\ last.refresh_token \in issued
    /\ refresh_token_endpoint(users, ledger, seqs, last.refresh_token, now)
          .status = 200
    /\ get_current_user(users, last.refresh_token, now).status = 401

\* the subjects and lifetimes create_refresh_token is called with
Subjects == 1..3

Lifetimes ==
    {None, timedelta(0), timedelta(REFRESH_TOKEN_EXPIRE_DAYS), timedelta(2)}

\* C14: a refresh token minted by create_refresh_token and decoded at once
\* under the refresh secret gives the subject it was minted for, type
\* "refresh" and the jti create_refresh_token returned; decoding it under
\* the access secret fails.
C14_RefreshRoundTrip ==
    \A sub \in Subjects, delta \in Lifetimes :
        LET minted == create_refresh_token(sub, delta, now, seqs)
            payload == JwtDecode(minted.token, REFRESH_SECRET_KEY,
                                 JWT_AUDIENCE, JWT_ISSUER, now)
        IN  /\ payload # None
            /\ payload.sub = sub
            /\ payload.type = "refresh"
            /\ payload.jti = minted.jti
            /\ JwtDecode(minted.token, SECRET_KEY, JWT_AUDIENCE, JWT_ISSUER,
                         now) = None

\* the refresh token an endpoint has just minted, decoded in the same tick
C14_Witness ==
    /\ last.op \in IssuingOps
    /\ last.refresh_token \in issued
    /\ last.refresh_token.payload.iat = now
    /\ LET payload == JwtDecode(last.refresh_token, REFRESH_SECRET_KEY,
                                JWT_AUDIENCE, JWT_ISSUER, now)
       IN  /\ payload # None
           /\ payload.sub = last.user_uuid
           /\ payload.type = "refresh"
           /\ \E r \in ledger : r.jti = payload.jti
    /\ JwtDecode(last.refresh_token, SECRET_KEY, JWT_AUDIENCE, JWT_ISSUER,
                 now) = None

\* the payload without one claim
Without(payload, claim) == [c \in DOMAIN payload \ {claim} |-> payload[c]]

\* what a client can present in place of an issued refresh token: the token
\* itself; the token signed by somebody else, or altered after signing; and
\* tokens signed with the refresh secret whose claims differ from what
\* create_refresh_token wrote
Presented(token) ==
    LET p == token.payload
        K == REFRESH_SECRET_KEY
    IN  {token,
         JwtEncode(p, "attacker-key"),
         [token EXCEPT !.payload.sub = @ + 1],
         JwtEncode([p EXCEPT !.exp = 0], K),
         JwtEncode([p EXCEPT !.iss = "other-api"], K),
         JwtEncode([p EXCEPT !.aud = "other-app"], K),
         JwtEncode([p EXCEPT !.type = "access"], K),
         JwtEncode(Without(p, "type"), K),
         JwtEncode(Without(p, "sub"), K),
         JwtEncode(Without(p, "jti"), K),
         JwtEncode([p EXCEPT !.jti = 0], K),
         JwtEncode([p EXCEPT !.sub = @ + 1], K),
         JwtEncode([p EXCEPT !.exp = @ + 1], K)}

PresentedTokens == UNION {Presented(token) : token \in issued}

\* the users table as it is, with every user disabled, and without users
UserTables == {users, {[u EXCEPT !.disabled = TRUE] : u \in users}, {}}

\* what the client sees of a response
Outward(r) ==
    [status |-> r.status, detail |-> r.detail,
     access_token |-> r.access_token, refresh_token |-> r.refresh_token]

InvalidTokenSeen ==
    [status |-> 401, detail |-> "Invalid or expired refresh token",
     access_token |-> None, refresh_token |-> None]

\* C15: whichever check of verify_refresh_token rejects a token, /refresh
\* and /logout give the client one and the same result, and leave the
\* database as it was.
C15_UniformFailure ==
    \A token \in PresentedTokens, U \in UserTables :
        LET r == refresh_token_endpoint(U, ledger, seqs, token, now)
            o == logout(U, ledger, seqs, token, now)
        IN  /\ r.status # 200 =>
                  /\ Outward(r) = InvalidTokenSeen
                  /\ r.ledger = ledger /\ r.users = U /\ r.seqs = seqs
            /\ o.status # 200 =>
                  /\ Outward(o) = InvalidTokenSeen
                  /\ o.ledger = ledger /\ o.users = U /\ o.seqs = seqs

\* the checks of verify_refresh_token, one at a time
SignedByService(token) == token.sig = Sign(token.payload, REFRESH_SECRET_KEY)

RecordOf(token) ==
    {r \in ledger : Has(token.payload, "jti") /\ r.jti = token.payload.jti}

\* a state in which tokens are refused for each reason: signature, expiry,
\* issuer, audience, type, missing claim, no record, revoked record, expired
\* record, other user's record, other hash, disabled user, no user
C15_Witness ==
    /\ last.op = "refresh"
    /\ \E token \in issued :
          /\ refresh_token_endpoint(users, ledger, seqs, token, now).status
                = 200
          /\ \A x \in Presented(token) \ {token} :
                refresh_token_endpoint(users, ledger, seqs, x, now).status
                    = 401
          /\ \A U \in UserTables \ {users} :
                logout(U, ledger, seqs, token, now).status = 401
    /\ \E token \in issued :
          /\ SignedByService(token) /\ token.payload.exp > now
          /\ \E r \in RecordOf(token) : r.revoked
    /\ \E token \in issued :
          /\ token.payload.exp <= now
          /\ \E r \in RecordOf(token) : ~r.revoked
          /\ LET later == JwtEncode([token.payload EXCEPT !.exp = @ + 1],
                                    REFRESH_SECRET_KEY)
             IN  /\ later.payload.exp > now
                 /\ refresh_token_endpoint(users, ledger, seqs, later, now)
                       .status = 401

\* everything /refresh requires of a token, stated on the token, the
\* ledger and the users table
RefreshConditions(U, token) ==
    /\ SignedByService(token)
    /\ JwtDecode(token, REFRESH_SECRET_KEY, JWT_AUDIENCE, JWT_ISSUER, now)
          # None
    /\ Has(token.payload, "type") /\ token.payload.type = "refresh"
    /\ Has(token.payload, "sub") /\ Has(token.payload, "jti")
    /\ \E r \in ledger :
          /\ r.jti = token.payload.jti
          /\ ~r.revoked
          /\ r.expires_at > now
          /\ r.user_uuid = token.payload.sub
          /\ r.token_hash = hash_token(token)
    /\ \E u \in U : u.uuid = token.payload.sub /\ ~u.disabled

\* C16: /refresh answers 200 only if the token verifies as a refresh token,
\* its record exists, is not revoked and not expired, belongs to the
\* token's subject and holds the hash of the presented token, and the
\* subject is an existing user who is not disabled; otherwise it answers
\* 401, and in no case anything else.
C16_RefreshOnlyIfAllHold ==
    \A token \in PresentedTokens, U \in UserTables :
        LET r == refresh_token_endpoint(U, ledger, seqs, token, now)
            all == RefreshConditions(U, token)
        IN  /\ r.status \in {200, 401}
            /\ r.status = 200 => all
            /\ ~all => r.status = 401

\* an accepted token beside a presented token that fails the hash check only
C16_Witness ==
    /\ IsLogin(last.op)
    /\ \E token \in issued :
          /\ RefreshConditions(users, token)
          /\ refresh_token_endpoint(users, ledger, seqs, token, now).status
                = 200
          /\ LET x == JwtEncode([token.payload EXCEPT !.exp = @ + 1],
                                REFRESH_SECRET_KEY)
             IN  /\ x \in PresentedTokens
                 /\ \E r \in ledger :
                       /\ r.jti = x.payload.jti /\ ~r.revoked
                       /\ r.expires_at > now /\ r.user_uuid = x.payload.sub
                       /\ r.token_hash # hash_token(x)
                 /\ refresh_token_endpoint(users, ledger, seqs, x, now)
                       .status = 401

\* C17: a delete_expired_tokens step removes exactly the rows whose
\* expires_at is before now, revoked or not, leaves the rows whose
\* expires_at is after now as they were, and returns the number removed.
C17_SweepDeletesExpired ==
    [][DeleteExpiredTokens =>
          LET x == delete_expired_tokens(ledger, now)
          IN  /\ ledger' = x.ledger
              /\ \A r \in ledger : r.expires_at < now => r \notin ledger'
              /\ \A r \in ledger : r.expires_at > now => r \in ledger'
              /\ ledger' \subseteq ledger
              /\ x.ret = Cardinality(ledger \ ledger')
              /\ x.ret = Cardinality({r \in ledger : r.expires_at < now})]_vars

\* after a sweep: of three issued tokens, the one logged out and another
\* one have no row any more, and a row that has not expired is there
C17_Witness ==
    /\ last.op = "delete_expired_tokens"
    /\ Cardinality(issued) = 3
    /\ \E t1 \in loggedOut, t2 \in issued \ (loggedOut \cup rotated) :
          /\ t1.payload.exp < now /\ t2.payload.exp < now
          /\ get_by_jti(ledger, t1.payload.jti) = None
          /\ get_by_jti(ledger, t2.payload.jti) = None
    /\ \E r \in ledger : r.expires_at > now /\ ~r.revoked

\* C21: a /logout step that answers 200 changes nothing but the row whose
\* jti is the token's: that row gets revoked = TRUE and revoked_at = now,
\* every other row stays as it was, no row is added or removed, no token is
\* minted or returned, and users and generators are untouched.
C21_LogoutOnlyRevokesOne ==
    [][\A token \in issued :
          (Logout(token)
             /\ logout(users, ledger, seqs, token, now).status = 200) =>
              LET r == logout(users, ledger, seqs, token, now)
                  row == get_by_jti(ledger, token.payload.jti)
              IN  /\ row # None /\ ~row.revoked
                  /\ ledger' = (ledger \ {row}) \cup
                        {[row EXCEPT !.revoked = TRUE, !.revoked_at = <<now>>]}
                  /\ \A o \in ledger : o.id # row.id => o \in ledger'
                  /\ NewRows = {}
                  /\ Cardinality(ledger') = Cardinality(ledger)
                  /\ r.access_token = None /\ r.refresh_token = None
                  /\ issued' = issued /\ accessIssued' = accessIssued
                  /\ seqs' = seqs /\ users' = users]_vars

\* after a logout: the token's row is revoked at this instant, and the same
\* user's other row, issued later, is still not revoked
C21_Witness ==
    /\ last.op = "logout"
    /\ \E x, o \in ledger :
          /\ x.jti = last.token.payload.jti
          /\ x.revoked /\ x.revoked_at = <<now>>
          /\ o.id # x.id /\ o.user_uuid = x.user_uuid
          /\ ~o.revoked /\ o.expires_at > now

ActiveCountOf(username) ==
    LET user == get_by_username(users, normalize_username(username).value)
    IN  count_active_tokens_for_user(ledger, user.uuid, now)

\* C23: with the username and password of an active user, /login and /token
\* answer 200 with a token pair whatever the user's number of active
\* refresh tokens is: below, at or above the configured maximum.
C23_CapNeverRejectsLogin ==
    \A n \in LoginNames, p \in Passwords :
        ValidCredentials(n, p) =>
            LET r == login(users, ledger, seqs, n, p, now)
                g == get_access_token(users, ledger, seqs, n, p, now)
            IN  /\ r.status = 200
                /\ r.access_token # None /\ r.refresh_token # None
                /\ g.status = 200
                /\ g.access_token # None /\ g.refresh_token # None

\* a login has just succeeded, the user now has more active tokens than the
\* maximum, and the next login succeeds as well
C23_Witness ==
    /\ IsLogin(last.op)
    /\ \E n \in LoginNames, p \in Passwords :
          /\ ValidCredentials(n, p)
          /\ ActiveCountOf(n) > MAX_ACTIVE_TOKENS_PER_USER
          /\ login(users, ledger, seqs, n, p, now).status = 200

\* C28: a deactivation step leaves the ledger as it was, and in every state
\* after it /refresh and /logout answer 401 to every refresh token issued
\* to the deactivated user.
C28_DeactivatedCannotRefresh ==
    [][/\ \A a \in accessIssued :
              (DeactivateCurrentUser(a)
                 /\ deactivate_current_user(users, ledger, seqs, a, now).status
                       = 200) =>
                  /\ ledger' = ledger
                  /\ a.payload.sub \in deactivated'
                  /\ \E u \in users' : u.uuid = a.payload.sub /\ u.disabled
       /\ \A token \in issued' :
              token.payload.sub \in deactivated' =>
                  /\ refresh_token_endpoint(users', ledger', seqs', token,
                                            now').status = 401
                  /\ logout(users', ledger', seqs', token, now').status = 401
                  /\ verify_refresh_token(users', ledger', token, now') = None
      ]_vars

\* right after a deactivation: a refresh token of the user that has not
\* expired and whose row is neither revoked nor expired is refused
C28_Witness ==
    /\ last.op = "deactivate"
    /\ \E token \in issued :
          /\ token.payload.sub \in deactivated
          /\ Unexpired(token)
          /\ \E r \in ledger : /\ r.jti = token.payload.jti
                               /\ ~r.revoked /\ r.expires_at > now
                               /\ r.token_hash = hash_token(token)
          /\ refresh_token_endpoint(users, ledger, seqs, token, now).status
                = 401
          /\ logout(users, ledger, seqs, token, now).status = 401

\* C29: for every access token issued to a user deactivate_user was
\* applied to, the active-user gate refuses the request in every later
\* state: with 403 while the token is unexpired, although get_current_user
\* accepts the token, and so do the endpoints behind the gate.
C29_DeactivatedAccessRefused ==
    \A a \in accessIssued :
        a.payload.sub \in deactivated =>
            LET g == get_current_active_user(users, a, now)
            IN  /\ g.status # 200
                /\ a.payload.exp > now =>
                      /\ get_current_user(users, a, now).status = 200
                      /\ g.status = 403
                /\ deactivate_current_user(users, ledger, seqs, a, now).status
                      = g.status

\* right after the deactivation: the access token that authorized it has
\* not expired, is correctly signed, and is refused by the gate
C29_Witness ==
    /\ last.op = "deactivate"
    /\ \E a \in accessIssued :
          /\ a.payload.sub \in deactivated
          /\ a.payload.exp > now
          /\ a.sig = Sign(a.payload, SECRET_KEY)
          /\ get_current_user(users, a, now).status = 200
          /\ get_current_active_user(users, a, now).status = 403

\* tokens with the claims of an issued token, signed with the same secret,
\* whose type claim is another type, another word, or missing
WrongType(token, key) ==
    {JwtEncode([token.payload EXCEPT !.type = ty], key) :
        ty \in {"access", "refresh", "other"} \ {token.payload.type}}
        \cup {JwtEncode(Without(token.payload, "type"), key)}

\* C30: verify_refresh_token refuses every unexpired token signed with the
\* refresh secret whose type claim is not "refresh", and get_current_user
\* refuses every unexpired token signed with the access secret whose type
\* claim is not "access".
C30_TypeClaimChecked ==
    /\ \A token \in issued :
          \A x \in WrongType(token, REFRESH_SECRET_KEY) :
              Unexpired(x) =>
                  verify_refresh_token(users, ledger, x, now) = None
    /\ \A token \in accessIssued :
          \A x \in WrongType(token, SECRET_KEY) :
              Unexpired(x) => get_current_user(users, x, now).status = 401

\* values of the environment variables JWT_ISSUER and JWT_AUDIENCE: the
\* defaults of config.py and one other string each
Issuers == {JWT_ISSUER, "other-api"}

Audiences == {JWT_AUDIENCE, "other-app"}

\* C31: whatever issuer and audience the service is configured with, an
\* access token create_access_token mints for an existing user is accepted
\* by get_current_user when presented at once, and gives that user.
C31_AccessRoundTrip ==
    \A issuer \in Issuers, audience \in Audiences, u \in users :
        LET token == create_access_token_under(
                         issuer, audience, u.uuid,
                         timedelta(ACCESS_TOKEN_EXPIRE_MINUTES), now)
            c == get_current_user(users, token, now)
        IN  c.status = 200 /\ c.user.uuid = u.uuid

\* the ledgers the same execution has when delete_expired_tokens also ran
\* at earlier points: rows that expired before now may be missing
SweptLedgers ==
    {ledger \ D : D \in SUBSET {r \in ledger : r.expires_at < now}}

\* ids of the rows of L, not revoked and not expired, that are revoked in L2
RevokedLive(L, L2) ==
    {r.id : r \in {x \in L : /\ ~x.revoked /\ x.expires_at > now
                               /\ \E y \in L2 : y.id = x.id /\ y.revoked}}

\* the responses to one request on two ledgers agree in status and in the
\* not-expired rows revoked, and the ledgers left behind differ at most by
\* rows that expired before now
SameOutcome(a, L, b, L2) ==
    /\ a.status = b.status
    /\ RevokedLive(L, a.ledger) = RevokedLive(L2, b.ledger)
    /\ {r \in a.ledger : r.expires_at >= now}
          = {r \in b.ledger : r.expires_at >= now}

\* C32: on the ledger as it is and on the ledger without rows that a sweep
\* would have deleted, every /login, /token, /refresh and /logout gives the
\* same status, revokes the same not-expired rows and leaves the same
\* not-expired rows behind.
C32_SweepIsOnlyCleanup ==
    \A L2 \in SweptLedgers :
        /\ \A n \in LoginNames, p \in Passwords :
              /\ SameOutcome(login(users, ledger, seqs, n, p, now), ledger,
                             login(users, L2, seqs, n, p, now), L2)
              /\ SameOutcome(
                     get_access_token(users, ledger, seqs, n, p, now), ledger,
                     get_access_token(users, L2, seqs, n, p, now), L2)
        /\ \A token \in issued :
              /\ SameOutcome(
                     refresh_token_endpoint(users, ledger, seqs, token, now),
                     ledger,
                     refresh_token_endpoint(users, L2, seqs, token, now), L2)
              /\ SameOutcome(logout(users, ledger, seqs, token, now), ledger,
                             logout(users, L2, seqs, token, now), L2)

\* values of REFRESH_TOKEN_EXPIRE_DAYS (config.py applies int() and nothing
\* else), and the expires_delta values the codec is called with: None, the
\* timedelta of the configured days as the endpoints pass it, and others
LifetimeDays == {-1, 0, REFRESH_TOKEN_EXPIRE_DAYS, 2}

ExpiresDeltas(days) == Lifetimes \cup {timedelta(days), timedelta(-1)}

\* C33: the row stored for a refresh token minted with any configured
\* lifetime and any expires_delta has expires_at after its created_at.
C33_ExpiresAfterCreation ==
    \A days \in LifetimeDays, sub \in Subjects :
        \A delta \in ExpiresDeltas(days) :
            LET minted == create_refresh_token_under(days, sub, delta, now,
                                                     seqs)
                stored == create(ledger, minted.jti, hash_token(minted.token),
                                 sub, minted.expire, now, minted.seqs)
            IN  /\ stored.ret.expires_at > stored.ret.created_at.t
                /\ minted.token.payload.exp > minted.token.payload.iat

\* C34: token ids are unique: two minted refresh tokens with one jti are
\* one token, two ledger rows with one jti are one row, and the jti the next
\* mint draws is the jti of no token minted before and of no ledger row.
C34_JtiUnique ==
    /\ \A a \in issued, b \in issued : a.payload.jti = b.payload.jti => a = b
    /\ \A r1 \in ledger, r2 \in ledger : r1.jti = r2.jti => r1 = r2
    /\ \A sub \in Subjects, delta \in Lifetimes :
            LET minted == create_refresh_token(sub, delta, now, seqs)
            IN  /\ \A a \in issued : a.payload.jti # minted.jti
                /\ \A r \in ledger : r.jti # minted.jti
                /\ minted.token.payload.jti = minted.jti

C34_Witness ==
    /\ Cardinality({a.payload.jti : a \in issued}) >= 3
    /\ Cardinality(ledger) >= 3
    /\ rotated # {}

\* C36: deactivate_user on a disabled user makes no storage write and
\* returns the user as it was; on an active user it returns the user with
\* disabled set, stores that, and writes once.
C36_DeactivateSkipsDisabled ==
    \A user \in users :
        LET r == deactivate_user_run(users, user)
        IN  IF user.disabled
            THEN r.writes = 0 /\ r.ret = user /\ r.users = users
            ELSE /\ r.writes = 1
                 /\ r.ret = [user EXCEPT !.disabled = TRUE]
                 /\ r.users = (users \ {user}) \cup {r.ret}

\* the token is rejected by jwt.decode or by the tests of its claims
FailsVerification(token, t) ==
    LET payload == JwtDecode(token, REFRESH_SECRET_KEY, JWT_AUDIENCE,
                             JWT_ISSUER, t)
    IN  \/ payload = None
        \/ ~Has(payload, "type") \/ payload.type # "refresh"
        \/ ~Has(payload, "sub") \/ ~Has(payload, "jti")

\* the response is a failure that wrote nothing and carries no token
FailedUntouched(r) ==
    r.status # 200
        => /\ r.ledger = ledger /\ r.seqs = seqs /\ r.users = users
           /\ r.refresh_token = None /\ r.access_token = None

\* C37: a login, refresh or logout that fails leaves the ledger as it was,
\* and a token rejected by the signature or claim checks is rejected
\* without a read of the ledger.
C37_FailureLeavesLedger ==
    /\ \A n \in LoginNames, p \in Passwords :
           /\ FailedUntouched(login(users, ledger, seqs, n, p, now))
           /\ FailedUntouched(get_access_token(users, ledger, seqs, n, p, now))
    /\ \A token \in PresentedTokens :
           /\ FailedUntouched(refresh_token_endpoint(users, ledger, seqs,
                                                     token, now))
           /\ FailedUntouched(logout(users, ledger, seqs, token, now))
           /\ FailsVerification(token, now)
                  => verify_refresh_token_run(users, ledger, token, now)
                         = [ret |-> None, reads |-> 0]

\* a rotated token is presented again while its user holds a live token,
\* and a token with a foreign signature is presented
C37_Witness ==
    /\ \E token \in rotated :
           /\ logout(users, ledger, seqs, token, now).status = 401
           /\ \E r \in ledger : ~r.revoked /\ r.user_uuid = token.payload.sub
    /\ \E token \in PresentedTokens :
           FailsVerification(token, now) /\ ledger # {}
    /\ \E n \in LoginNames, p \in Passwords :
           login(users, ledger, seqs, n, p, now).status = 401

\* C39: a /refresh step that answers 200 for a user who holds at most the
\* maximum of active tokens revokes the row of the presented token and
\* leaves every other row of the ledger as it was, so no other session is
\* evicted, and the user's number of active tokens is the same after.
C39_RotationEvictsNobody ==
    [][\A token \in issued :
          (/\ Refresh(token)
           /\ refresh_token_endpoint(users, ledger, seqs, token, now).status
                 = 200
           /\ count_active_tokens_for_user(ledger, token.payload.sub, now)
                 <= MAX_ACTIVE_TOKENS_PER_USER) =>
              /\ \A o \in ledger : o.jti # token.payload.jti => o \in ledger'
              /\ \E x \in ledger' : x.jti = token.payload.jti /\ x.revoked
              /\ count_active_tokens_for_user(ledger', token.payload.sub, now')
                    = count_active_tokens_for_user(ledger, token.payload.sub,
                                                   now)]_vars

\* a rotation done at the cap: the user still holds the maximum, one of the
\* active rows being a session older than the rotated token
C39_Witness ==
    /\ last.op = "refresh"
    /\ count_active_tokens_for_user(ledger, last.user_uuid, now)
          = MAX_ACTIVE_TOKENS_PER_USER
    /\ \E o \in ledger, x \in ledger :
           /\ x.jti = last.token.payload.jti /\ x.revoked
           /\ o.user_uuid = last.user_uuid /\ ~o.revoked /\ o.expires_at > now
           /\ o.jti # last.refresh_token.payload.jti
           /\ Earlier(o.created_at, x.created_at)

(***************************************************************************)
(* The ledger specification: the sequential specification with the         *)
(* repository's mutators also called directly, in any order.               *)
(***************************************************************************)
LedgerNext ==
    \/ Next /\ seqs'.token_id <= MaxLedgerRows
    \/ \E row \in ledger : Revoke(row)
    \/ \E row \in ledger : RevokeByJti(row.jti)
    \/ \E u \in UserUuids : RevokeAllForUser(u)
    \/ \E u \in UserUuids : RevokeOldestTokens(u)

LedgerSpec == Init /\ [][LedgerNext]_vars

\* C7: a row whose revoked flag is true keeps it true in every step; the
\* row disappears only when delete_expired_tokens deletes it, expired.
C7_RevokedIsMonotonic ==
    [][\A r \in ledger :
          r.revoked =>
              /\ \A x \in ledger' : x.id = r.id => x.revoked
              /\ (\A x \in ledger' : x.id # r.id) =>
                    /\ last'.op = "delete_expired_tokens"
                    /\ r.expires_at < now]_vars

\* two rows revoked at different instants, the later one by a direct call of
\* revoke_oldest_tokens: the row revoked earlier is still revoked
C7_Witness ==
    /\ last.op = "revoke_oldest_tokens"
    /\ \E r1, r2 \in ledger :
          /\ r1.revoked /\ r2.revoked
          /\ r1.revoked_at # <<>> /\ r2.revoked_at = <<now>>
          /\ r1.revoked_at # r2.revoked_at

\* C8: once revoked_at is set, no operation changes it.
C8_RevokedAtWrittenOnce ==
    [][\A r \in ledger :
          r.revoked_at # <<>> =>
              \A x \in ledger' : x.id = r.id => x.revoked_at = r.revoked_at]_vars

\* the jtis revoke_by_jti is called with: those of the rows, and one of no row
Jtis == {r.jti : r \in ledger} \cup {0}

\* C18: revoke_by_jti on a row that is not revoked sets revoked and returns
\* True; on a revoked row or a jti of no row it returns False and changes
\* nothing; a second call, then or later, returns False and changes nothing.
C18_RevokeByJtiIdempotent ==
    \A jti \in Jtis, t2 \in now..(MaxTime + 1) :
        LET row == get_by_jti(ledger, jti)
            x == revoke_by_jti(ledger, jti, now)
            y == revoke_by_jti(x.ledger, jti, t2)
        IN  /\ IF row # None /\ ~row.revoked
               THEN /\ x.ret = TRUE
                    /\ x.ledger = (ledger \ {row}) \cup
                          {[row EXCEPT !.revoked = TRUE,
                                       !.revoked_at = <<now>>]}
               ELSE x.ret = FALSE /\ x.ledger = ledger
            /\ y.ret = FALSE
            /\ y.ledger = x.ledger

\* after a direct revoke_by_jti: a revoked row, on which the call returns
\* False, beside a row that is not revoked, on which it returns True
C18_Witness ==
    /\ last.op = "revoke_by_jti"
    /\ \E r1, r2 \in ledger :
          /\ r1.revoked /\ ~r2.revoked
          /\ revoke_by_jti(ledger, r1.jti, now).ret = FALSE
          /\ revoke_by_jti(ledger, r2.jti, now).ret = TRUE

\* the user's rows that are not revoked and not expired
ActiveRows(user_uuid) ==
    {r \in ledger : r.user_uuid = user_uuid /\ ~r.revoked
                       /\ r.expires_at > now}

\* the user's rows that are not revoked
UnrevokedRows(user_uuid) ==
    {r \in ledger : r.user_uuid = user_uuid /\ ~r.revoked}

\* C19: revoke_oldest_tokens revokes exactly one row, the earliest created
\* of the user's rows that are not revoked and not expired, and returns
\* True; when the user has no such row it returns False and changes nothing.
C19_RevokeOldestActive ==
    \A u \in UserUuids \cup {0} :
        LET x == revoke_oldest_tokens(ledger, u, now)
        IN  IF ActiveRows(u) = {}
            THEN x.ret = FALSE /\ x.ledger = ledger
            ELSE /\ x.ret = TRUE
                 /\ \E r \in ActiveRows(u) :
                       /\ \A o \in ActiveRows(u) \ {r} :
                             Earlier(r.created_at, o.created_at)
                       /\ x.ledger = (ledger \ {r}) \cup
                             {[r EXCEPT !.revoked = TRUE,
                                        !.revoked_at = <<now>>]}

\* C20 as claimed: revoke_all_for_user revokes exactly the user's active
\* rows and returns their number, which is the active count before the
\* call, and the active count after it is 0.
C20_RevokeAllActive ==
    \A u \in UserUuids \cup {0} :
        LET x == revoke_all_for_user(ledger, u, now)
        IN  /\ x.ret = count_active_tokens_for_user(ledger, u, now)
            /\ x.ledger = (ledger \ ActiveRows(u)) \cup
                  {[r EXCEPT !.revoked = TRUE, !.revoked_at = <<now>>]
                      : r \in ActiveRows(u)}
            /\ count_active_tokens_for_user(x.ledger, u, now) = 0

\* C20 amended: revoke_all_for_user revokes exactly the user's rows that
\* are not revoked, expired or not, and returns their number; that number
\* is at least the active count before the call, and equal to it when none
\* of those rows has expired; the active count after the call is 0.
C20_RevokeAllUnrevoked ==
    \A u \in UserUuids \cup {0} :
        LET x == revoke_all_for_user(ledger, u, now)
            before == count_active_tokens_for_user(ledger, u, now)
        IN  /\ x.ret = Cardinality(UnrevokedRows(u))
            /\ x.ledger = (ledger \ UnrevokedRows(u)) \cup
                  {[r EXCEPT !.revoked = TRUE, !.revoked_at = <<now>>]
                      : r \in UnrevokedRows(u)}
            /\ x.ret >= before
            /\ UnrevokedRows(u) = ActiveRows(u) => x.ret = before
            /\ count_active_tokens_for_user(x.ledger, u, now) = 0

\* after a direct revoke_all_for_user that revoked two rows at once, one of
\* them expired by then and one not
C20_Witness ==
    /\ last.op = "revoke_all_for_user"
    /\ \E r1, r2 \in ledger :
          /\ r1.user_uuid = r2.user_uuid
          /\ r1.revoked_at = <<now>> /\ r2.revoked_at = <<now>>
          /\ r1.expires_at <= now /\ r2.expires_at > now
    /\ \A u \in UserUuids : count_active_tokens_for_user(ledger, u, now) = 0

\* C24: whatever has been done to the ledger (logout, rotation, eviction,
\* revoke_all_for_user, sweep), get_current_user accepts an access token the
\* service issued exactly when the token has not expired, and gives the
\* token's user; the active-user gate then depends on the user only.
C24_AccessIgnoresLedger ==
    \A a \in accessIssued :
        LET c == get_current_user(users, a, now)
            g == get_current_active_user(users, a, now)
        IN  /\ c.status = IF a.payload.exp > now THEN 200 ELSE 401
            /\ c.status = 200 =>
                  /\ c.user.uuid = a.payload.sub
                  /\ g.status = IF c.user.disabled THEN 403 ELSE 200

\* after revoke_all_for_user the user has rows and all of them are revoked,
\* and an access token issued to the user before that is accepted
C24_Witness ==
    /\ last.op = "revoke_all_for_user"
    /\ \E a \in accessIssued :
          /\ a.payload.exp > now
          /\ \E r \in ledger : r.user_uuid = a.payload.sub
                                /\ r.revoked_at = <<now>>
          /\ \A r \in ledger : r.user_uuid = a.payload.sub => r.revoked
          /\ get_current_user(users, a, now).status = 200

(***************************************************************************)
(* The concurrent specification.  Requests are served at the same time by  *)
(* workers that share the database; each request has its own Session       *)
(* (get_db), and every statement and every commit of a repository method   *)
(* is one step.  reqs[i] is what request i holds in its session and where  *)
(* it is in its handler.  The users table does not change here and no row  *)
(* is deleted, so the reads of one repository call are taken together.     *)
(***************************************************************************)
Reqs == 1..MaxRequests

IdleReq ==
    [op |-> "idle", pc |-> "idle", token |-> None, user_uuid |-> 0,
     row |-> None, wrote |-> FALSE, status |-> 0, refresh_token |-> None]

\* the database after one sequential /register
AfterRegister ==
    LET in == CHOOSE x \in RegInputs : TRUE
        r == register({}, {},
                      [user_id |-> 0, token_id |-> 0, user_uuid |-> 0,
                       jti |-> 0],
                      in.username, in.email, in.password, 0)
    IN  /\ now = 0
        /\ users = r.users
        /\ ledger = r.ledger
        /\ seqs = r.seqs
        /\ issued = {r.refresh_token}
        /\ accessIssued = {r.access_token}
        /\ last = [op |-> "register", token |-> None,
                   access_token |-> r.access_token,
                   refresh_token |-> r.refresh_token,
                   user_uuid |-> r.user_uuid]
        /\ rotated = {}
        /\ loggedOut = {}
        /\ deactivated = {}
        /\ streak = NoStreak

\* the database after one sequential /register, and no request yet
ConcInit == AfterRegister /\ reqs = [i \in Reqs |-> IdleReq]

\* requests are numbered in the order they arrive
Arrives(i) ==
    /\ reqs[i].pc = "idle"
    /\ IF i = 1 THEN TRUE ELSE reqs[i - 1].pc # "idle"

Ghosts == <<now, users, last, rotated, loggedOut, deactivated, streak>>

\* /login up to the return of authenticate_user
StartLogin(i, username, password) ==
    /\ Arrives(i)
    /\ LET v == normalize_username(username)
           user == IF v.ok THEN authenticate_user(users, v.value, password)
                   ELSE None
       IN  reqs' = [reqs EXCEPT ![i] =
               IF ~v.ok THEN [@ EXCEPT !.op = "login", !.pc = "done",
                                       !.status = 422]
               ELSE IF user = None
                    THEN [@ EXCEPT !.op = "login", !.pc = "done",
                                   !.status = 401]
                    ELSE [@ EXCEPT !.op = "login", !.pc = "count",
                                   !.user_uuid = user.uuid]]
    /\ UNCHANGED <<ledger, seqs, issued, accessIssued>>
    /\ UNCHANGED Ghosts

\* /refresh up to the return of verify_refresh_token; the session keeps the
\* row that get_valid_token_by_jti loaded
StartRefresh(i, token) ==
    /\ Arrives(i)
    /\ LET result == verify_refresh_token(users, ledger, token, now)
       IN  reqs' = [reqs EXCEPT ![i] =
               IF result = None
               THEN [@ EXCEPT !.op = "refresh", !.pc = "done",
                              !.token = token, !.status = 401]
               ELSE [@ EXCEPT !.op = "refresh", !.pc = "revoke",
                              !.token = token,
                              !.user_uuid = result.user.uuid,
                              !.row = get_valid_token_by_jti(ledger,
                                                             result.jti,
                                                             now)]]
    /\ UNCHANGED <<ledger, seqs, issued, accessIssued>>
    /\ UNCHANGED Ghosts

\* /logout up to the return of verify_refresh_token
StartLogout(i, token) ==
    /\ Arrives(i)
    /\ LET result == verify_refresh_token(users, ledger, token, now)
       IN  reqs' = [reqs EXCEPT ![i] =
               IF result = None
               THEN [@ EXCEPT !.op = "logout", !.pc = "done",
                              !.token = token, !.status = 401]
               ELSE [@ EXCEPT !.op = "logout", !.pc = "revoke",
                              !.token = token,
                              !.user_uuid = result.user.uuid,
                              !.row = get_valid_token_by_jti(ledger,
                                                             result.jti,
                                                             now)]]
    /\ UNCHANGED <<ledger, seqs, issued, accessIssued>>
    /\ UNCHANGED Ghosts

\* revoke_by_jti in the request's session.  get_by_jti selects the row
\* again, and `token.revoked` is either what the session loaded in
\* verify_refresh_token (the identity map keeps a loaded attribute) or what
\* the database holds now (the attribute was refreshed).  The endpoint
\* ignores the returned bool: /refresh goes on to create_and_store_tokens,
\* /logout returns its message.  wrote records whether this call committed
\* the UPDATE.
RevokeByJtiStep(i) ==
    /\ reqs[i].pc = "revoke"
    /\ LET token == get_by_jti(ledger, reqs[i].row.jti)
       IN  \E seen \in {reqs[i].row.revoked, token.revoked} :
               /\ ledger' = IF ~seen THEN MarkRevoked(ledger, token.id, now)
                            ELSE ledger
               /\ reqs' = [reqs EXCEPT ![i] =
                      IF reqs[i].op = "logout"
                      THEN [@ EXCEPT !.pc = "done", !.status = 200,
                                     !.row = None, !.wrote = ~seen]
                      ELSE [@ EXCEPT !.pc = "count", !.row = None,
                                     !.wrote = ~seen]]
    /\ UNCHANGED <<seqs, issued, accessIssued>>
    /\ UNCHANGED Ghosts

\* create_and_store_tokens: count_active_tokens_for_user and the test
CountStep(i) ==
    /\ reqs[i].pc = "count"
    /\ LET active_count ==
               count_active_tokens_for_user(ledger, reqs[i].user_uuid, now)
       IN  reqs' = [reqs EXCEPT ![i] =
               [@ EXCEPT !.pc = IF active_count >= MAX_ACTIVE_TOKENS_PER_USER
                                THEN "select" ELSE "create"]]
    /\ UNCHANGED <<ledger, seqs, issued, accessIssued>>
    /\ UNCHANGED Ghosts

\* revoke_oldest_tokens: the SELECT
SelectOldestStep(i) ==
    /\ reqs[i].pc = "select"
    /\ LET oldest == OldestRow(ledger, reqs[i].user_uuid)
       IN  reqs' = [reqs EXCEPT ![i] =
               IF oldest # None
               THEN [@ EXCEPT !.pc = "evict", !.row = oldest]
               ELSE [@ EXCEPT !.pc = "create"]]
    /\ UNCHANGED <<ledger, seqs, issued, accessIssued>>
    /\ UNCHANGED Ghosts

\* revoke_oldest_tokens: the UPDATE and the commit
EvictStep(i) ==
    /\ reqs[i].pc = "evict"
    /\ ledger' = MarkRevoked(ledger, reqs[i].row.id, now)
    /\ reqs' = [reqs EXCEPT ![i] = [@ EXCEPT !.pc = "create", !.row = None]]
    /\ UNCHANGED <<seqs, issued, accessIssued>>
    /\ UNCHANGED Ghosts

\* create_and_store_tokens from create_access_token on, and the response
CreateStep(i) ==
    /\ reqs[i].pc = "create"
    /\ LET user_uuid == reqs[i].user_uuid
           access_token ==
               create_access_token(user_uuid,
                                   timedelta(ACCESS_TOKEN_EXPIRE_MINUTES), now)
           minted ==
               create_refresh_token(user_uuid,
                                    timedelta(REFRESH_TOKEN_EXPIRE_DAYS), now,
                                    seqs)
           stored == create(ledger, minted.jti, hash_token(minted.token),
                            user_uuid, minted.expire, now, minted.seqs)
       IN  /\ ledger' = stored.ledger
           /\ seqs' = stored.seqs
           /\ issued' = issued \cup {minted.token}
           /\ accessIssued' = accessIssued \cup {access_token}
           /\ reqs' = [reqs EXCEPT ![i] =
                  [@ EXCEPT !.pc = "done",
                            !.status = IF reqs[i].op = "register" THEN 201
                                       ELSE 200,
                            !.refresh_token = minted.token]]
    /\ UNCHANGED Ghosts

ConcNext ==
    \E i \in Reqs :
        \/ \E n \in LoginNames, p \in Passwords : StartLogin(i, n, p)
        \/ \E token \in issued : StartRefresh(i, token)
        \/ \E token \in issued : StartLogout(i, token)
        \/ RevokeByJtiStep(i)
        \/ CountStep(i)
        \/ SelectOldestStep(i)
        \/ EvictStep(i)
        \/ CreateStep(i)

ConcSpec == ConcInit /\ [][ConcNext]_vars

\* C2: of two /refresh requests that present the same refresh token, at
\* most one answers 200 and stores a replacement pair.
C2_ConcurrentSingleUse ==
    \A i, j \in Reqs :
        (/\ i # j
         /\ reqs[i].op = "refresh" /\ reqs[j].op = "refresh"
         /\ reqs[i].token = reqs[j].token)
            => ~(reqs[i].status = 200 /\ reqs[j].status = 200)

\* C6: a user's number of active refresh tokens is never more than the
\* configured maximum plus one, however the issuing requests interleave.
C6_CapPlusOne ==
    \A u \in UserUuids :
        count_active_tokens_for_user(ledger, u, now)
            <= MAX_ACTIVE_TOKENS_PER_USER + 1

\* C25: of a /logout request and a /refresh request that present the same
\* refresh token, at most one answers 200, however their steps interleave.
C25_LogoutExcludesRefresh ==
    \A i, j \in Reqs :
        (/\ reqs[i].op = "logout" /\ reqs[j].op = "refresh"
         /\ reqs[i].token = reqs[j].token)
            => ~(reqs[i].status = 200 /\ reqs[j].status = 200)

\* C26: no state has a row revoked by a /refresh request whose replacement
\* row is not in the ledger.
C26_RotationIsOneTransaction ==
    \A i \in Reqs :
        (reqs[i].op = "refresh" /\ reqs[i].wrote) =>
            /\ reqs[i].refresh_token # None
            /\ \E r \in ledger :
                  /\ r.jti = reqs[i].refresh_token.payload.jti
                  /\ r.user_uuid = reqs[i].user_uuid

(***************************************************************************)
(* The recovery specification: a race of concurrent /login requests with   *)
(* valid credentials, stepwise as in the concurrent specification, and     *)
(* after it up to MaxRecoveryLogins sequential logins, each a /login with  *)
(* valid credentials that runs from start to end while no other request    *)
(* is in flight.  The clock stands still, so no token expires, and nobody  *)
(* logs out.  A request in flight proceeds to its end, and a sequential    *)
(* login that can be made is made.                                         *)
(***************************************************************************)
RecoveryReqs == (MaxRequests + 1)..(MaxRequests + MaxRecoveryLogins)

RecoveryInit == AfterRegister /\ reqs = [i \in Reqs \cup RecoveryReqs |-> IdleReq]

NoneInFlight == \A j \in DOMAIN reqs : reqs[j].pc \in {"idle", "done"}

SeqLogin(i, username, password) ==
    /\ reqs[i].pc = "idle"
    /\ NoneInFlight
    /\ ValidCredentials(username, password)
    /\ LET r == login(users, ledger, seqs, username, password, now)
       IN  /\ ledger' = r.ledger
           /\ seqs' = r.seqs
           /\ issued' = IF r.refresh_token # None
                        THEN issued \cup {r.refresh_token} ELSE issued
           /\ accessIssued' = IF r.access_token # None
                              THEN accessIssued \cup {r.access_token}
                              ELSE accessIssued
           /\ reqs' = [reqs EXCEPT ![i] =
                  [@ EXCEPT !.op = "login", !.pc = "done",
                            !.status = r.status, !.user_uuid = r.user_uuid,
                            !.refresh_token = r.refresh_token]]
    /\ UNCHANGED Ghosts

\* a /login of the race arrives: before the first sequential login
RaceLogin(i, username, password) ==
    /\ \A j \in RecoveryReqs : reqs[j].pc = "idle"
    /\ ValidCredentials(username, password)
    /\ StartLogin(i, username, password)

\* a request in flight takes its next step
Proceed ==
    \E i \in Reqs :
        \/ CountStep(i)
        \/ SelectOldestStep(i)
        \/ EvictStep(i)
        \/ CreateStep(i)

SomeSeqLogin ==
    \E i \in RecoveryReqs, n \in LoginNames, p \in Passwords : SeqLogin(i, n, p)

RecoveryNext ==
    \/ \E i \in Reqs, n \in LoginNames, p \in Passwords : RaceLogin(i, n, p)
    \/ Proceed
    \/ SomeSeqLogin

\* ENABLED SomeSeqLogin, written out
CanSeqLogin ==
    /\ NoneInFlight
    /\ \E i \in RecoveryReqs : reqs[i].pc = "idle"
    /\ \E n \in LoginNames, p \in Passwords : ValidCredentials(n, p)

\* weak fairness of SomeSeqLogin
FairSeqLogin == []<>(~CanSeqLogin) \/ []<><<SomeSeqLogin>>_vars

RecoverySpec ==
    /\ RecoveryInit
    /\ [][RecoveryNext]_vars
    /\ WF_vars(Proceed)
    /\ FairSeqLogin

\* some user has more active tokens than the configured maximum
Overshoot ==
    \E u \in UserUuids :
        count_active_tokens_for_user(ledger, u, now)
            > MAX_ACTIVE_TOKENS_PER_USER

\* a sequential login of a user at or above the maximum leaves the user's
\* number of active tokens as it was: one row revoked, one created
SeqLoginKeepsCount ==
    [][SomeSeqLogin =>
          \A u \in UserUuids :
              count_active_tokens_for_user(ledger, u, now)
                    >= MAX_ACTIVE_TOKENS_PER_USER =>
                  count_active_tokens_for_user(ledger', u, now')
                      = count_active_tokens_for_user(ledger, u, now)]_vars

RaceInputs ==
    {[username |-> Ali, email |-> "ali@example.com", password |-> "Passw0rd!a"],
     [username |-> Ali, email |-> "bob@example.com", password |-> "Passw0rd!a"],
     [username |-> Bob, email |-> "ali@example.com", password |-> "Passw0rd!a"],
     [username |-> Bob, email |-> "bob@example.com", password |-> "Passw0rd!a"]}

RegisterInit ==
    /\ now = 0
    /\ users = {}
    /\ ledger = {}
    /\ seqs = [user_id |-> 0, token_id |-> 0, user_uuid |-> 0, jti |-> 0]
    /\ issued = {}
    /\ accessIssued = {}
    /\ last = [op |-> "init", token |-> None, access_token |-> None,
               refresh_token |-> None, user_uuid |-> 0]
    /\ rotated = {}
    /\ loggedOut = {}
    /\ deactivated = {}
    /\ streak = NoStreak
    /\ reqs = [i \in Reqs |-> IdleReq]

\* /register up to the call of add_user: the validated body
StartRegister(i, in) ==
    /\ Arrives(i)
    /\ reqs' = [reqs EXCEPT ![i] =
           [@ EXCEPT !.op = "register", !.pc = "add_user", !.row = in]]
    /\ UNCHANGED <<ledger, seqs, issued, accessIssued>>
    /\ UNCHANGED Ghosts

\* add_user: the INSERT and the commit, or IntegrityError, the rollback and
\* the 409 of /register
AddUserStep(i) ==
    /\ reqs[i].pc = "add_user"
    /\ LET in == reqs[i].row
           a == add_user(users, in.username, in.email, in.password, seqs)
       IN  /\ users' = a.users
           /\ seqs' = a.seqs
           /\ reqs' = [reqs EXCEPT ![i] =
                  IF a.ret = None
                  THEN [@ EXCEPT !.pc = "done", !.status = 409]
                  ELSE [@ EXCEPT !.pc = "count", !.user_uuid = a.ret.uuid]]
    /\ UNCHANGED <<now, ledger, issued, accessIssued, last, rotated,
                   loggedOut, deactivated, streak>>

RegisterNext ==
    \E i \in Reqs :
        \/ \E in \in RaceInputs : StartRegister(i, in)
        \/ AddUserStep(i)
        \/ CountStep(i)
        \/ CreateStep(i)

RegisterSpec == RegisterInit /\ [][RegisterNext]_vars

\* the request has inserted its user / has been answered 409
Created(i) ==
    /\ reqs[i].op = "register"
    /\ reqs[i].pc \in {"count", "create", "done"}
    /\ reqs[i].status # 409

Conflicted(i) ==
    reqs[i].op = "register" /\ reqs[i].pc = "done" /\ reqs[i].status = 409

Clash(a, b) == a.username = b.username \/ a.email = b.email

BobInput ==
    [username |-> Bob, email |-> "bob@example.com", password |-> "Passw0rd!a"]

AliInput ==
    [username |-> Ali, email |-> "ali@example.com", password |-> "Passw0rd!a"]

TwoUserInit ==
    LET r1 == register({}, {},
                       [user_id |-> 0, token_id |-> 0, user_uuid |-> 0,
                        jti |-> 0],
                       BobInput.username, BobInput.email, BobInput.password, 0)
        r2 == register(r1.users, r1.ledger, r1.seqs, AliInput.username,
                       AliInput.email, AliInput.password, 0)
    IN  /\ now = 0
        /\ users = r2.users
        /\ ledger = r2.ledger
        /\ seqs = r2.seqs
        /\ issued = {r1.refresh_token, r2.refresh_token}
        /\ accessIssued = {r1.access_token, r2.access_token}
        /\ last = [op |-> "register", token |-> None,
                   access_token |-> r2.access_token,
                   refresh_token |-> r2.refresh_token,
                   user_uuid |-> r2.user_uuid]
        /\ rotated = {}
        /\ loggedOut = {}
        /\ deactivated = {}
        /\ streak = NoStreak
        /\ reqs = <<>>

TwoUserNext ==
    \/ \E n \in LoginNames, p \in Passwords : Login(n, p)
    \/ \E token \in issued : Refresh(token)
    \/ \E token \in issued : Logout(token)
    \/ \E u \in UserUuids : RevokeAllForUser(u)
    \/ \E u \in UserUuids : RevokeOldestTokens(u)

TwoUserSpec == TwoUserInit /\ [][TwoUserNext]_vars

\* the rows of L that belong to a user other than user_uuid
RowsOfOthers(L, user_uuid) == {r \in L : r.user_uuid # user_uuid}

\* the response leaves the rows of every user but its own as they were
Isolated(r) ==
    r.status = 200
        => RowsOfOthers(r.ledger, r.user_uuid)
               = RowsOfOthers(ledger, r.user_uuid)

\* the instants from now on, to past the expiry of every row
Instants == now..(MaxTime + REFRESH_TOKEN_EXPIRE_DAYS)

\* C38: a login, a rotation, a logout, the eviction at the cap and
\* revoke_all_for_user, done for one user now or at any later instant,
\* leave every ledger row of every other user as it was and add no row for
\* another user.
C38_PerUserIsolation ==
    \A t \in Instants :
        /\ \A n \in LoginNames, p \in Passwords :
               /\ Isolated(login(users, ledger, seqs, n, p, t))
               /\ Isolated(get_access_token(users, ledger, seqs, n, p, t))
        /\ \A token \in issued :
               /\ Isolated(refresh_token_endpoint(users, ledger, seqs, token,
                                                  t))
               /\ Isolated(logout(users, ledger, seqs, token, t))
        /\ \A u \in UserUuids :
               /\ RowsOfOthers(revoke_all_for_user(ledger, u, t).ledger, u)
                      = RowsOfOthers(ledger, u)
               /\ RowsOfOthers(revoke_oldest_tokens(ledger, u, t).ledger, u)
                      = RowsOfOthers(ledger, u)
               /\ RowsOfOthers(EvictIfAtCap(ledger, u, t), u)
                      = RowsOfOthers(ledger, u)

\* a login has just evicted a row of its user at the cap, while the oldest
\* unrevoked row of the ledger belongs to the other user
C38_Witness ==
    /\ last.op = "login"
    /\ \E r \in ledger :
           /\ r.user_uuid = last.user_uuid /\ r.revoked
           /\ r.revoked_at = <<now>>
    /\ \E o \in ledger :
           /\ o.user_uuid # last.user_uuid /\ ~o.revoked
           /\ \A r \in ledger \ {o} : Earlier(o.created_at, r.created_at)
====
